---- MODULE Spec2Model ----
(***************************************************************************)
(* Linear-regression visualizer: the App dataset and its statistics        *)
(* consumers (calculations panel, table, chat context), and the AI model   *)
(* worker with the hook that talks to it.                                  *)
(*                                                                         *)
(* Numbers are JavaScript numbers restricted to exact rationals plus NaN   *)
(* and +/-Infinity.  Inputs are small integers, for which the sums and     *)
(* products of the code are exact; quotients are kept as exact fractions   *)
(* (binary rounding and the sign of zero are not represented).             *)
(***************************************************************************)
EXTENDS Integers, Sequences, FiniteSets, TLC

(***************************************************************************)
(* Bounds                                                                  *)
(***************************************************************************)
MaxPoints == 5

\* requests the hook sends in one run (ids are 1..MaxRequests)
MaxRequests == 3

\* retryLoading calls in one run (workers are numbered 1..MaxRetries + 1)
MaxRetries == 2

\* chat messages kept in one run (the greeting and whole exchanges)
MaxMessages == 5

\* longest dataset whose permutations are all enumerated
MaxPermuted == 3

\* longest dataset in the specification of the fitted line's properties
MaxFitPoints == 4

\* candidate lines of the grid search have slopes and intercepts k / GridDen
GridDen == 2

\* the largest dataset whose statistics are stored after computing them
MaxComputedPoints == 3

\* longest message list of the conversation-context specification
MaxTranscript == 7

\* longest dataset in the specification of the chart's hover overlays
MaxChartPoints == 3

(***************************************************************************)
(* JavaScript number arithmetic                                            *)
(***************************************************************************)
Abs(i) == IF i < 0 THEN -i ELSE i

Sign(i) == IF i < 0 THEN -1 ELSE IF i > 0 THEN 1 ELSE 0

RECURSIVE Gcd(_, _)
Gcd(a, b) == IF b = 0 THEN a ELSE Gcd(b, a % b)

NaN == [k |-> "nan", n |-> 0, d |-> 0]

Infinity(s) == [k |-> "inf", n |-> s, d |-> 0]

\* the finite number n/d (d # 0), in lowest terms with a positive denominator
Fin(n, d) ==
    LET g == Gcd(Abs(n), Abs(d))
        s == Sign(d)
    IN [k |-> "fin", n |-> (s * n) \div g, d |-> Abs(d) \div g]

Int2Num(i) == Fin(i, 1)

IsZero(a) == a.k = "fin" /\ a.n = 0

\* a + b
NumAdd(a, b) ==
    IF a.k = "nan" \/ b.k = "nan" THEN NaN
    ELSE IF a.k = "inf" /\ b.k = "inf" THEN (IF a.n = b.n THEN a ELSE NaN)
    ELSE IF a.k = "inf" THEN a
    ELSE IF b.k = "inf" THEN b
    ELSE Fin(a.n * b.d + b.n * a.d, a.d * b.d)

\* -a
NumNeg(a) == IF a.k = "nan" THEN NaN ELSE [a EXCEPT !.n = -a.n]

\* a - b
NumSub(a, b) == NumAdd(a, NumNeg(b))

\* a * b
NumMul(a, b) ==
    IF a.k = "nan" \/ b.k = "nan" THEN NaN
    ELSE IF a.k = "inf" \/ b.k = "inf"
         THEN (IF IsZero(a) \/ IsZero(b) THEN NaN ELSE Infinity(Sign(a.n) * Sign(b.n)))
    ELSE Fin(a.n * b.n, a.d * b.d)

\* a / b : 0/0 is NaN, x/0 is +/-Infinity
NumDiv(a, b) ==
    IF a.k = "nan" \/ b.k = "nan" THEN NaN
    ELSE IF a.k = "inf" /\ b.k = "inf" THEN NaN
    ELSE IF a.k = "inf" THEN Infinity(IF b.n < 0 THEN -a.n ELSE a.n)
    ELSE IF b.k = "inf" THEN Int2Num(0)
    ELSE IF b.n = 0 THEN (IF a.n = 0 THEN NaN ELSE Infinity(Sign(a.n)))
    ELSE Fin(a.n * b.d, a.d * b.n)

RECURSIVE Pow10(_)
Pow10(p) == IF p = 0 THEN 1 ELSE 10 * Pow10(p - 1)

\* Number.prototype.toFixed(p): the decimal text of a rounded to p places,
\* as sign, digits (the integer |a| * 10^p rounded half up) and places
toFixed(a, p) ==
    IF a.k = "nan" THEN [k |-> "NaN", sign |-> "", digits |-> 0, places |-> p]
    ELSE IF a.k = "inf"
         THEN [k |-> "Infinity", sign |-> IF a.n < 0 THEN "-" ELSE "", digits |-> 0, places |-> p]
    ELSE [k |-> "decimal",
          sign |-> IF a.n < 0 THEN "-" ELSE "",
          digits |-> (2 * Abs(a.n) * Pow10(p) + a.d) \div (2 * a.d),
          places |-> p]

(***************************************************************************)
(* State                                                                   *)
(***************************************************************************)
VARIABLES
    dataPoints,       \* App: the dataset, a sequence of points [x, y]
    x,                \* DataInput: the text of the X field
    y,                \* DataInput: the text of the Y field
    hoveredPointIndex,\* App: the position of the hovered table row, or NullIndex
    computed          \* the statistics last computed from the current dataset,
                      \* NotComputed after the dataset has been set anew

dataVars == <<dataPoints, x, y, hoveredPointIndex, computed>>

\* hoveredPointIndex is null (positions are counted from 1)
NullIndex == 0

\* the dataset has been set and no consumer has computed from it yet
NotComputed == [k |-> "notcomputed"]

\* a coordinate is an integer; this one stands for a coordinate that is NaN
NaNCoordinate == -1000000

\* the fixture of the specification and two points sharing an x with it
FixturePoints == << [x |-> 1, y |-> 2], [x |-> 2, y |-> 4], [x |-> 3, y |-> 5],
                    [x |-> 4, y |-> 4], [x |-> 5, y |-> 5] >>

\* the points a user enters in this model
PointDomain == {FixturePoints[i] : i \in 1..Len(FixturePoints)}
                   \cup {[x |-> 2, y |-> 1], [x |-> 2, y |-> 5]}

(***************************************************************************)
(* Statistics: the sums every consumer recomputes with Array.reduce        *)
(***************************************************************************)
\* s.reduce((acc, v) => acc + v, 0), left to right
RECURSIVE ReduceFrom(_, _)
ReduceFrom(s, i) == IF i = 0 THEN Int2Num(0) ELSE NumAdd(ReduceFrom(s, i - 1), s[i])

Reduce(s) == ReduceFrom(s, Len(s))

\* the coordinate as a number
Coord2Num(c) == IF c = NaNCoordinate THEN NaN ELSE Int2Num(c)

PX(data, i) == Coord2Num(data[i].x)

PY(data, i) == Coord2Num(data[i].y)

sumX(data) == Reduce([i \in 1..Len(data) |-> PX(data, i)])

sumY(data) == Reduce([i \in 1..Len(data) |-> PY(data, i)])

sumXY(data) == Reduce([i \in 1..Len(data) |-> NumMul(PX(data, i), PY(data, i))])

sumXX(data) == Reduce([i \in 1..Len(data) |-> NumMul(PX(data, i), PX(data, i))])

\* variant of sumYY: the y values are not squared
sumYY_NotSquared(data) == sumY(data)

sumYY(data) == Reduce([i \in 1..Len(data) |-> NumMul(PY(data, i), PY(data, i))])

NumLen(data) == Int2Num(Len(data))

meanX(data) == NumDiv(sumX(data), NumLen(data))

\* variant of meanY: the first y value instead of the mean
meanY_First(data) == PY(data, 1)

meanY(data) == NumDiv(sumY(data), NumLen(data))

\* variant of sxx: the division by n is left out
sxx_Undivided(data) == NumSub(sumXX(data), NumMul(sumX(data), sumX(data)))

\* sxx = sumXX - (sumX * sumX) / n
sxx(data) == NumSub(sumXX(data), NumDiv(NumMul(sumX(data), sumX(data)), NumLen(data)))

\* variant of scp: the division by n is left out
scp_Undivided(data) == NumSub(sumXY(data), NumMul(sumX(data), sumY(data)))

\* scp = sumXY - (sumX * sumY) / n
scp(data) == NumSub(sumXY(data), NumDiv(NumMul(sumX(data), sumY(data)), NumLen(data)))

\* slope = scp / sxx, unguarded (calculations panel and table)
slope(data) == NumDiv(scp(data), sxx(data))

\* variant of intercept: the slope term is left out
intercept_MeanY(data) == meanY(data)

\* intercept = meanY - slope * meanX
intercept(data) == NumSub(meanY(data), NumMul(slope(data), meanX(data)))

Null == [k |-> "null"]

(***************************************************************************)
(* RegressionCalculations.calculateStats                                   *)
(* (r2 comes from the external regression library and is not modelled)     *)
(***************************************************************************)
calculateStats(data) ==
    IF Len(data) < 2 THEN Null
    ELSE [k |-> "stats",
          sxx |-> sxx(data), scp |-> scp(data),
          slope |-> slope(data), intercept |-> intercept(data),
          n |-> Len(data), sumX |-> sumX(data), sumY |-> sumY(data),
          sumXY |-> sumXY(data), meanX |-> meanX(data), meanY |-> meanY(data)]

\* what the calculations panel renders: the placeholder, or the equation
\* with slope.toFixed(4) and intercept.toFixed(4)
CalculationsPanel(data) ==
    LET stats == calculateStats(data)
    IN IF stats.k = "null" THEN [k |-> "placeholder"]
       ELSE [k |-> "panel",
             slope |-> toFixed(stats.slope, 4),
             intercept |-> toFixed(stats.intercept, 4),
             sxx |-> toFixed(stats.sxx, 4),
             scp |-> toFixed(stats.scp, 4)]

(***************************************************************************)
(* RegressionChart.calculateRegression: only its guard and the x-range;    *)
(* the fit itself is done by the external regression library               *)
(***************************************************************************)
MinOf(S) == CHOOSE m \in S : \A v \in S : m <= v

MaxOf(S) == CHOOSE m \in S : \A v \in S : m >= v

calculateRegression(data) ==
    IF Len(data) < 2 THEN Null
    ELSE [k |-> "regression",
          minX |-> MinOf({data[i].x : i \in 1..Len(data)}),
          maxX |-> MaxOf({data[i].x : i \in 1..Len(data)})]

(***************************************************************************)
(* RegressionChart: the datasets added while a table row is hovered        *)
(* (hoveredIndex is a position counted from 1, or 0 for null)              *)
(***************************************************************************)
Undefined == [k |-> "undefined"]

\* data[index]: undefined outside the array
ArrayRead(data, index) == IF index \in 1..Len(data) THEN data[index] ELSE Undefined

\* variant of HoverGuard: the index is only compared with null
HoverGuard_IndexOnly(data, hoveredIndex) == hoveredIndex # 0

\* hoveredPointIndex !== null && hoveredPointIndex !== undefined &&
\* data[hoveredPointIndex]
HoverGuard(data, hoveredIndex) ==
    hoveredIndex # 0 /\ ArrayRead(data, hoveredIndex) # Undefined

\* the x positions of the overlay segments of the hovered point, with the
\* x-range of the data; reading a coordinate of undefined throws
HoverOverlays(data, hoveredIndex) ==
    IF ~HoverGuard(data, hoveredIndex) THEN [k |-> "none"]
    ELSE IF ArrayRead(data, hoveredIndex) = Undefined THEN [k |-> "TypeError"]
    ELSE LET hoveredPoint == ArrayRead(data, hoveredIndex)
             minX == MinOf({data[i].x : i \in 1..Len(data)})
             maxX == MaxOf({data[i].x : i \in 1..Len(data)})
             xRange == NumSub(Int2Num(maxX), Int2Num(minX))
             offsetAmount == NumMul(xRange, Fin(1, 100))
             isHighestX == hoveredPoint.x = maxX
             isLowestX == hoveredPoint.x = minX
             yDiffOffset ==
                 IF isLowestX THEN NumMul(offsetAmount, Fin(1, 2))
                 ELSE IF isHighestX THEN NumMul(NumNeg(offsetAmount), Fin(3, 2))
                 ELSE NumNeg(offsetAmount)
             residualOffset ==
                 IF isLowestX THEN NumMul(offsetAmount, Fin(3, 2))
                 ELSE IF isHighestX THEN NumMul(NumNeg(offsetAmount), Fin(1, 2))
                 ELSE offsetAmount
         IN [k |-> "overlays",
             hoveredPoint |-> hoveredPoint,
             minX |-> Int2Num(minX),
             maxX |-> Int2Num(maxX),
             yDifferenceX |-> NumAdd(Int2Num(hoveredPoint.x), yDiffOffset),
             residualX |-> NumAdd(Int2Num(hoveredPoint.x), residualOffset)]

(***************************************************************************)
(* App: the table body and footer, rendered when dataPoints.length > 0     *)
(***************************************************************************)
\* one body row: deviations, predicted value and residual of point i
TableRow(data, i) ==
    LET xDiff == NumSub(PX(data, i), meanX(data))
        yDiff == NumSub(PY(data, i), meanY(data))
        yPredicted == NumAdd(NumMul(slope(data), PX(data, i)), intercept(data))
        residual == NumSub(PY(data, i), yPredicted)
    IN [slope |-> slope(data), intercept |-> intercept(data),
        xDiff |-> xDiff, yDiff |-> yDiff,
        yPredicted |-> yPredicted, residual |-> residual,
        xDiff2 |-> NumMul(xDiff, xDiff), xyDiff |-> NumMul(xDiff, yDiff),
        residual2 |-> NumMul(residual, residual), yDiff2 |-> NumMul(yDiff, yDiff)]

\* footer sums, each a reduce over the points of the deviation form (the
\* callbacks recompute the means and the line for every point; the values
\* are the same for all points and are written once here)
FooterSXX(data) ==
    LET mX == meanX(data)
    IN Reduce([i \in 1..Len(data) |->
           LET xDiff == NumSub(PX(data, i), mX) IN NumMul(xDiff, xDiff)])

FooterSCP(data) ==
    LET mX == meanX(data)
        mY == meanY(data)
    IN Reduce([i \in 1..Len(data) |->
           LET xDiff == NumSub(PX(data, i), mX)
               yDiff == NumSub(PY(data, i), mY)
           IN NumMul(xDiff, yDiff)])

FooterSSres(data) ==
    LET b1 == slope(data)
        b0 == intercept(data)
    IN Reduce([i \in 1..Len(data) |->
           LET yPredicted == NumAdd(NumMul(b1, PX(data, i)), b0)
               residual == NumSub(PY(data, i), yPredicted)
           IN NumMul(residual, residual)])

\* variant of FooterSStot: deviations taken from the x mean
FooterSStot_MeanX(data) ==
    LET mX == meanX(data)
    IN Reduce([i \in 1..Len(data) |->
           LET yDiff == NumSub(PY(data, i), mX) IN NumMul(yDiff, yDiff)])

FooterSStot(data) ==
    LET mY == meanY(data)
    IN Reduce([i \in 1..Len(data) |->
           LET yDiff == NumSub(PY(data, i), mY) IN NumMul(yDiff, yDiff)])

TableView(data) ==
    IF Len(data) > 0
    THEN [k |-> "table",
          rows |-> [i \in 1..Len(data) |-> TableRow(data, i)],
          sxx |-> FooterSXX(data), scp |-> FooterSCP(data),
          ssres |-> FooterSSres(data), sstot |-> FooterSStot(data)]
    ELSE [k |-> "hidden"]

\* R^2 = 1 - SSres / SStot over the footer sums
R2(data) == NumSub(Int2Num(1), NumDiv(FooterSSres(data), FooterSStot(data)))

(***************************************************************************)
(* GemmaChatbot.generateDataContext                                        *)
(***************************************************************************)
\* a/b <= c/d for naturals a, c and positive b, d, compared by their
\* continued fractions (no product is formed, so nothing overflows)
RECURSIVE FracLeq(_, _, _, _)
FracLeq(a, b, c, d) ==
    IF a \div b # c \div d THEN a \div b < c \div d
    ELSE IF a % b = 0 THEN TRUE
    ELSE IF c % d = 0 THEN FALSE
    ELSE FracLeq(d, c % d, b, a % b)

\* the largest m in lo..hi with m = 0 or ((2m - 1) / 2000)^2 <= square / radicand
RECURSIVE RoundSearch(_, _, _, _)
RoundSearch(lo, hi, square, radicand) ==
    IF lo = hi THEN lo
    ELSE LET mid == (lo + hi + 1) \div 2
         IN IF FracLeq((2 * mid - 1) * (2 * mid - 1), 4000000, square, radicand)
            THEN RoundSearch(mid, hi, square, radicand)
            ELSE RoundSearch(lo, mid - 1, square, radicand)

\* numerator / Math.sqrt(radicand) rounded to three places: the digits m of
\* toFixed(3), the integer nearest to 1000 * |numerator| / sqrt(radicand),
\* ties upward (|r| <= 1, so m is in 0..1000)
CorrelationDigits(numerator, radicand) ==
    RoundSearch(0, 1000, numerator * numerator, radicand)

\* correlation.toFixed(3) where
\* correlation = denominator !== 0 ? numerator / denominator : 0
CorrelationText(data) ==
    LET n == NumLen(data)
        numerator == NumSub(NumMul(n, sumXY(data)), NumMul(sumX(data), sumY(data)))
        radicand == NumMul(NumSub(NumMul(n, sumXX(data)), NumMul(sumX(data), sumX(data))),
                           NumSub(NumMul(n, sumYY(data)), NumMul(sumY(data), sumY(data))))
    IN IF radicand.n # 0
       THEN [k |-> "decimal",
             sign |-> IF numerator.n < 0 THEN "-" ELSE "",
             digits |-> CorrelationDigits(numerator.n, radicand.n),
             places |-> 3]
       ELSE toFixed(Int2Num(0), 3)

\* slope = sxx !== 0 ? scp / sxx : 0
ContextSlope(data) == IF ~IsZero(sxx(data)) THEN NumDiv(scp(data), sxx(data)) ELSE Int2Num(0)

\* intercept = meanY - slope * meanX
ContextIntercept(data) == NumSub(meanY(data), NumMul(ContextSlope(data), meanX(data)))

generateDataContext(data) ==
    IF Len(data) = 0 THEN [k |-> "nodata"]
    ELSE [k |-> "context",
          n |-> Len(data),
          meanX |-> toFixed(meanX(data), 2),
          meanY |-> toFixed(meanY(data), 2),
          slope |-> toFixed(ContextSlope(data), 3),
          intercept |-> toFixed(ContextIntercept(data), 3),
          correlation |-> CorrelationText(data)]

(***************************************************************************)
(* GemmaChatbot: messages and the fallback answers.  A text is its string  *)
(* and the keywords (of those the code searches for) that it includes.     *)
(***************************************************************************)
Text(s, words) == [s |-> s, words |-> words, length |-> Len(s)]

\* a text of that many characters with none of the keywords, and no white
\* space at its ends
LongText(length) == [s |-> "a long text", words |-> {}, length |-> length]

\* !inputText.trim()
Blank(input) == input.s \in {"", "   "}

\* what a user types in this model
Inputs == { Text("   ", {}),
            Text("what is the slope?", {"slope"}),
            Text("tell me more", {"tell me more", "r"}) }

\* the initial message list
Greeting == [isUser |-> FALSE, text |-> Text("Hi! I'm your AI assistant", {}),
             result |-> "none"]

maxContextTokens == 4000

systemPromptTokens == 200

responseTokens == 150

\* estimateTokens(text) for a text of that many characters: Math.ceil(length / 4)
estimateTokens(length) == (length + 3) \div 4

\* the length of `${message.isUser ? 'Human' : 'Assistant'}: ${message.text}`
MessageTextLength(message) ==
    (IF message.isUser THEN Len("Human: ") ELSE Len("Assistant: ")) + message.text.length

availableTokens(currentQuestion) ==
    maxContextTokens - systemPromptTokens - responseTokens
        - estimateTokens(currentQuestion.length)

\* variant of MessageTokens: the separator that follows the message is counted
MessageTokens_WithSeparator(message) ==
    estimateTokens(MessageTextLength(message) + Len("\n\n"))

\* messageTokens of the loop
MessageTokens(message) == estimateTokens(MessageTextLength(message))

\* the loop of createConversationContext, at message i with totalTokens
\* counted so far (the greeting at the first position is skipped): the
\* position of the oldest message it prepends
RECURSIVE OldestIncluded(_, _, _, _)
OldestIncluded(msgs, i, totalTokens, available) ==
    IF i < 2 THEN 2
    ELSE LET messageTokens == MessageTokens(msgs[i])
         IN IF totalTokens + messageTokens > available
            THEN i + 1
            ELSE OldestIncluded(msgs, i - 1, totalTokens + messageTokens, available)

\* createConversationContext: the messages whose lines make up the returned
\* string, oldest first
createConversationContext(msgs, currentQuestion) ==
    SubSeq(msgs, OldestIncluded(msgs, Len(msgs), 0, availableTokens(currentQuestion)),
           Len(msgs))

RECURSIVE LinesLength(_, _)
LinesLength(conversationHistory, k) ==
    IF k = 0 THEN 0
    ELSE LinesLength(conversationHistory, k - 1)
             + MessageTextLength(conversationHistory[k]) + Len("\n\n")

\* the length of the returned string: every line is followed by a blank line,
\* and trim() removes the last of these
HistoryLength(conversationHistory) ==
    IF conversationHistory = << >> THEN 0
    ELSE LinesLength(conversationHistory, Len(conversationHistory)) - Len("\n\n")

\* conversationHistory?.includes(word): each line is "Human: " or
\* "Assistant: " followed by the message text
HistoryIncludes(conversationHistory, word) ==
    \E k \in 1..Len(conversationHistory) : word \in conversationHistory[k].text.words

FollowUpWords == {"what about", "and", "also", "how about", "explain that", "tell me more"}

\* getSimpleResponse(question, dataContext, conversationHistory)
getSimpleResponse(question, dataContext, conversationHistory) ==
    LET q == question.words
        isFollowUp == conversationHistory # << >> /\ q \cap FollowUpWords # {}
        matches == dataContext.k = "context"
    IN IF q \cap {"correlation", "r"} # {} /\ matches
       THEN IF isFollowUp /\ HistoryIncludes(conversationHistory, "slope")
            THEN Text("Your correlation coefficient is ... relates to the slope we discussed",
                      {"correlation", "slope", "r", "and"})
            ELSE Text("Your correlation coefficient is ...", {"correlation", "r", "and"})
       ELSE IF q \cap {"slope", "intercept"} # {} /\ matches
       THEN IF isFollowUp /\ HistoryIncludes(conversationHistory, "correlation")
            THEN Text("Your regression line is ... related to the correlation we discussed",
                      {"regression", "line", "slope", "correlation", "r"})
            ELSE Text("Your regression line is ...", {"regression", "line", "slope", "r"})
       ELSE IF q \cap {"regression", "line"} # {}
       THEN Text("Linear regression finds the best-fitting straight line ...",
                 {"regression", "line", "r", "and"})
       ELSE IF q \cap {"r-squared", "r²"} # {}
       THEN IF isFollowUp /\ HistoryIncludes(conversationHistory, "correlation")
            THEN Text("R-squared measures ... the square of the correlation coefficient",
                      {"r-squared", "regression", "line", "correlation", "r"})
            ELSE Text("R-squared measures how well your regression line fits the data ...",
                      {"r-squared", "regression", "line", "r"})
       ELSE IF isFollowUp
       THEN Text("I understand you're asking a follow-up question ...", {"r", "and"})
       ELSE Text("I can help explain linear regression concepts ...",
                 {"regression", "line", "correlation", "slope", "intercept", "r-squared",
                  "r", "and"})

\* what generateText resolved with: generated_text that cleans to more than
\* 5 characters, to at most 5, or a result without generated_text
Results == {"text", "short", "malformed"}

\* aiResponse after the cleaning of lines 563-593 ('' when nothing usable)
CleanResponse(result) ==
    IF result = "text" THEN Text("generated answer", {"r", "and"}) ELSE Text("", {})

\* no handleSendMessage invocation is suspended
NoCall == [k |-> "idle", request |-> 0, currentInput |-> Text("", {}),
           dataContext |-> [k |-> "nodata"], conversationHistory |-> << >>]

\* the assistant message the invocation call appends: outcome is 'notloaded',
\* 'rejected' (generateText threw) or what generateText resolved with
AssistantMessage(call, outcome) ==
    LET aiResponse == IF outcome \in Results THEN CleanResponse(outcome) ELSE Text("", {})
    IN [isUser |-> FALSE,
        text |-> IF aiResponse.s = ""
                 THEN getSimpleResponse(call.currentInput, call.dataContext,
                                        call.conversationHistory)
                 ELSE aiResponse,
        result |-> outcome]

(***************************************************************************)
(* App: dataset operations                                                 *)
(***************************************************************************)
\* variant of handleDataAddIn: an updater, setDataPoints(prev => [...prev, point])
handleDataAddIn_Updater(closed, latest, point) == Append(latest, point)

\* the dataset handleDataAdd sets: [...dataPoints, point], where dataPoints is
\* the dataset of the render the handler closes over (closed), whatever the
\* state has become since (latest)
handleDataAddIn(closed, latest, point) == Append(closed, point)

\* setDataPoints([...dataPoints, point])
handleDataAdd(point) ==
    /\ Len(dataPoints) < MaxPoints
    /\ dataPoints' = handleDataAddIn(dataPoints, dataPoints, point)

\* setHoveredPointIndex(index)
handlePointHover(index) ==
    /\ hoveredPointIndex' = index

\* setDataPoints([])
handleClear ==
    /\ dataPoints' = << >>

\* variant of KeepsPoint: the points that differ from the one at index
KeepsPoint_ByValue(data, i, index) == data[i] # data[index]

\* the filter callback (_, i) => i !== index
KeepsPoint(data, i, index) == i # index

\* data.filter(callback): the elements from position i on that the callback
\* keeps, in order
RECURSIVE FilterFrom(_, _, _)
FilterFrom(data, i, index) ==
    IF i > Len(data) THEN << >>
    ELSE (IF KeepsPoint(data, i, index) THEN << data[i] >> ELSE << >>)
             \o FilterFrom(data, i + 1, index)

\* setDataPoints(dataPoints.filter((_, i) => i !== index))
handleDeletePoint(index) ==
    /\ dataPoints' = FilterFrom(dataPoints, 1, index)

(***************************************************************************)
(* DataInput: the form                                                     *)
(***************************************************************************)
\* what a user leaves in a field of this model
FieldTexts == {"", "abc", "2", "-3"}

\* parseFloat(text)
parseFloat(text) ==
    CASE text = "2" -> Int2Num(2)
      [] text = "-3" -> Int2Num(-3)
      [] OTHER -> NaN

\* variant of isNaN: nothing is NaN
isNaN_Never(num) == FALSE

isNaN(num) == num.k = "nan"

\* the number as a coordinate of a stored point
Num2Coord(num) == IF num.k = "fin" /\ num.d = 1 THEN num.n ELSE NaNCoordinate

\* onChange of the X field and of the Y field
setX(text) == x' = text

setY(text) == y' = text

\* what the component's handlers close over: the state as last rendered
Rendered == [dataPoints |-> dataPoints, x |-> x, y |-> y]

\* the body shared by handleSubmit and handleYKeyDown (key Enter), run by a
\* handler of the render `closed` when the state is `latest`: the state it
\* leaves
SubmitFieldsIn(closed, latest) ==
    LET xNum == parseFloat(closed.x)
        yNum == parseFloat(closed.y)
    IN IF ~isNaN(xNum) /\ ~isNaN(yNum)
       THEN [dataPoints |-> handleDataAddIn(closed.dataPoints, latest.dataPoints,
                                [x |-> Num2Coord(xNum), y |-> Num2Coord(yNum)]),
             x |-> "",
             y |-> ""]
       ELSE latest

\* the state becomes `state`
SetState(state) ==
    /\ Len(state.dataPoints) <= MaxPoints
    /\ dataPoints' = state.dataPoints
    /\ setX(state.x)
    /\ setY(state.y)

SubmitFields == SetState(SubmitFieldsIn(Rendered, Rendered))

handleSubmit == SubmitFields

handleYKeyDown == SubmitFields

\* what follows the keydown handler of an Enter press in the Y field: the key's
\* default action submits the form.  The submit event is not dispatched when
\* the form's validation refuses a field (both are `required`); when it is,
\* handleSubmit is the handler of the render committed after the keydown
\* handler, or still that of the render before it.
ImplicitSubmissions == {"refused", "rerendered", "notrerendered"}

\* one press of Enter in the Y field
PressEnterInY(implicit) ==
    LET keyed == SubmitFieldsIn(Rendered, Rendered)
    IN CASE implicit = "refused" -> SetState(keyed)
         [] implicit = "rerendered" -> SetState(SubmitFieldsIn(keyed, keyed))
         [] implicit = "notrerendered" -> SetState(SubmitFieldsIn(Rendered, keyed))

DataInit ==
    /\ dataPoints = << >> /\ x = "" /\ y = ""
    /\ hoveredPointIndex = NullIndex
    /\ computed = NotComputed

(***************************************************************************)
(* AI model worker and useAIModelWorker hook: state                        *)
(* (progressUpdate and loadedModelName only feed the display and are left  *)
(* out; PROGRESS messages are kept in the queues)                          *)
(***************************************************************************)
VARIABLES
    modelStatus,      \* hook: 'loading' | 'loaded' | 'failed'
    workerInstance,   \* module-level shared worker: 0 is null, else the worker's number
    workerRef,        \* hook: workerRef.current, same encoding
    pendingRequests,  \* hook: key set of the pendingRequests map
    isInitializedRef, \* hook: isInitializedRef.current
    mountTimer,       \* hook: the 2 s setTimeout of the mount effect
    requests,         \* the promises returned by sendWorkerMessage, by request id
    nextId,           \* next unused request id
    retries,          \* retryLoading calls so far
    isOpen,           \* chat: the chat window is open
    isLoading,        \* chat: a question is being answered
    messages,         \* chat: the message list, the greeting first
    chatCall,         \* chat: the handleSendMessage invocation suspended at its await
    running,          \* the workers created and not terminated
    generator,        \* per worker: the loaded pipeline, "null" when none
    isInitializing,   \* per worker: a load is in progress
    inbox,            \* per worker: messages posted to it, not yet handled
    outbox,           \* per worker: messages it posted, not yet handled by the hook
    handlers          \* per worker and request id: where that onmessage invocation is suspended

hookVars == <<modelStatus, workerInstance, workerRef, pendingRequests, isInitializedRef,
              mountTimer, requests, nextId, retries, isOpen, isLoading, messages, chatCall>>

workerVars == <<running, generator, isInitializing, inbox, outbox, handlers>>

vars == <<dataVars, hookVars, workerVars>>

Ids == 1..MaxRequests

Workers == 1..(MaxRetries + 1)

\* a promise not yet created
NoRequest == [type |-> "none", origin |-> "none", state |-> "unused", by |-> "none",
              timer |-> FALSE, calls |-> 0, answered |-> FALSE]

Msg(id, type) == [id |-> id, type |-> type]

IdleHandlers == [i \in Ids |-> "idle"]

WorkerInit ==
    /\ modelStatus = "loading"
    /\ workerInstance = 0
    /\ workerRef = 0
    /\ pendingRequests = {}
    /\ isInitializedRef = FALSE
    /\ mountTimer = "idle"
    /\ requests = [i \in Ids |-> NoRequest]
    /\ nextId = 1
    /\ retries = 0
    /\ isOpen = FALSE
    /\ isLoading = FALSE
    /\ messages = << Greeting >>
    /\ chatCall = NoCall
    /\ running = {}
    /\ generator = [w \in Workers |-> "null"]
    /\ isInitializing = [w \in Workers |-> FALSE]
    /\ inbox = [w \in Workers |-> << >>]
    /\ outbox = [w \in Workers |-> << >>]
    /\ handlers = [w \in Workers |-> IdleHandlers]

(***************************************************************************)
(* Promise plumbing of sendWorkerMessage                                   *)
(***************************************************************************)
\* originalResolve / originalReject: a promise keeps its first settlement;
\* calls counts the invocations
Settle(req, state, by) ==
    [req EXCEPT !.calls = @ + 1,
                !.state = IF req.state = "pending" THEN state ELSE @,
                !.by = IF req.state = "pending" THEN by ELSE @]

\* variant of ResolveWrapper: the timeout is not cleared
ResolveWrapper_TimerKept(req) == Settle(req, "resolved", "reply")

\* the stored resolve: clearTimeout(timeout); originalResolve(result)
ResolveWrapper(req) == Settle([req EXCEPT !.timer = FALSE], "resolved", "reply")

\* the stored reject: clearTimeout(timeout); originalReject(error)
RejectWrapper(req) == Settle([req EXCEPT !.timer = FALSE], "rejected", "error")

\* variant of TimeoutReject: the callback does not reject
TimeoutReject_Silent(req) == [req EXCEPT !.timer = FALSE]

\* the timeout callback's reject(new Error('Worker request timeout'))
TimeoutReject(req) == Settle([req EXCEPT !.timer = FALSE], "rejected", "timeout")

\* variant of TimeoutDelete: the entry is left in the table
TimeoutDelete_Kept(pending, id) == pending

\* the timeout callback's pendingRequests.current.delete(id)
TimeoutDelete(pending, id) == pending \ {id}

\* onmessage: pendingRequests.current.delete(id) after settling a found entry
ReplyDelete(pending, id) == pending \ {id}

\* what the awaiting caller does when its promise settles:
\* mount effect: .catch(() => setModelStatus('failed'));
\* retryLoading: .catch(console.error); chat: setIsLoading(false) after the await
StatusAfterSettle(origin, state, status) ==
    IF origin = "mount" /\ state = "rejected" THEN "failed" ELSE status

\* variant of LoadingAfterSettle: the flag is left as it is
LoadingAfterSettle_Kept(origin, loading) == loading

LoadingAfterSettle(origin, loading) ==
    IF origin = "generate" THEN FALSE ELSE loading

\* the suspended handleSendMessage invocation awaits the promise of request id
Awaited(id) == chatCall.k = "awaiting" /\ chatCall.request = id

\* the rest of handleSendMessage after its await
AnswerMessage(outcome) == AssistantMessage(chatCall, outcome)

\* sendWorkerMessage(type) called with workerRef.current = ref, the table
\* pending and the worker queues boxes
sendWorkerMessage(type, origin, ref, pending, boxes) ==
    /\ nextId <= MaxRequests
    /\ nextId' = nextId + 1
    /\ IF ref = 0
       THEN /\ requests' = [requests EXCEPT ![nextId] =
                   [type |-> type, origin |-> origin, state |-> "rejected",
                    by |-> "noworker", timer |-> FALSE, calls |-> 1, answered |-> FALSE]]
            /\ pendingRequests' = pending
            /\ inbox' = boxes
       ELSE /\ requests' = [requests EXCEPT ![nextId] =
                   [type |-> type, origin |-> origin, state |-> "pending",
                    by |-> "none", timer |-> TRUE, calls |-> 0, answered |-> FALSE]]
            /\ pendingRequests' = pending \cup {nextId}
            /\ inbox' = [boxes EXCEPT ![ref] = Append(@, Msg(nextId, type))]

(***************************************************************************)
(* Hook operations                                                         *)
(***************************************************************************)
\* useEffect: the first run creates (or adopts) the worker and arms the 2 s
\* timer when initializeWorker returned a new worker
MountEffect ==
    /\ IF ~isInitializedRef
       THEN /\ isInitializedRef' = TRUE
            /\ IF workerInstance # 0
               THEN /\ workerRef' = workerInstance
                    /\ UNCHANGED <<workerInstance, mountTimer, running>>
               ELSE /\ workerInstance' = retries + 1
                    /\ workerRef' = retries + 1
                    /\ running' = running \cup {retries + 1}
                    /\ mountTimer' = "armed"
       ELSE UNCHANGED <<isInitializedRef, workerInstance, workerRef, mountTimer, running>>
    /\ UNCHANGED <<dataVars, messages, chatCall, modelStatus, pendingRequests, requests, nextId, retries,
                   isOpen, isLoading, generator, isInitializing, inbox, outbox, handlers>>

\* the mount effect's setTimeout callback: sendWorkerMessage('INITIALIZE_MODEL')
MountTimerFires ==
    /\ mountTimer = "armed"
    /\ mountTimer' = "done"
    /\ sendWorkerMessage("INITIALIZE_MODEL", "mount", workerRef, pendingRequests, inbox)
    /\ modelStatus' = StatusAfterSettle("mount", requests'[nextId].state, modelStatus)
    /\ UNCHANGED <<dataVars, messages, chatCall, workerInstance, workerRef, isInitializedRef, retries,
                   isOpen, isLoading, running, generator, isInitializing, outbox, handlers>>

\* the 60 s timeout of request id
RequestTimeout(id) ==
    /\ requests[id].timer
    /\ pendingRequests' = TimeoutDelete(pendingRequests, id)
    /\ requests' = [requests EXCEPT ![id] = TimeoutReject(@)]
    /\ modelStatus' = StatusAfterSettle(requests[id].origin, requests'[id].state, modelStatus)
    /\ isLoading' = LoadingAfterSettle(requests[id].origin, isLoading)
    /\ IF Awaited(id)
       THEN /\ messages' = Append(messages, AnswerMessage("rejected"))
            /\ chatCall' = NoCall
       ELSE UNCHANGED <<messages, chatCall>>
    /\ UNCHANGED <<dataVars, workerInstance, workerRef, isInitializedRef, mountTimer,
                   nextId, retries, isOpen, workerVars>>

\* worker.onmessage for the oldest undelivered message of worker w
OnMessage(w) ==
    /\ w \in running
    /\ outbox[w] # << >>
    /\ LET id == Head(outbox[w]).id
           type == Head(outbox[w]).type
           found == id \in pendingRequests
           settles == found /\ type # "PROGRESS"
           req == IF type = "ERROR" THEN RejectWrapper(requests[id])
                  ELSE ResolveWrapper(requests[id])
       IN /\ outbox' = [outbox EXCEPT ![w] = Tail(@)]
          /\ requests' = [requests EXCEPT ![id] =
                 IF type = "PROGRESS" THEN @
                 ELSE [(IF found THEN req ELSE @) EXCEPT !.answered = TRUE]]
          /\ pendingRequests' = IF settles THEN ReplyDelete(pendingRequests, id)
                                ELSE pendingRequests
          /\ modelStatus' =
                 LET status == CASE type = "MODEL_READY" -> "loaded"
                                 [] type = "ERROR" -> "failed"
                                 [] OTHER -> modelStatus
                 IN IF settles
                    THEN StatusAfterSettle(requests[id].origin, req.state, status)
                    ELSE status
          /\ isLoading' = IF settles THEN LoadingAfterSettle(requests[id].origin, isLoading)
                          ELSE isLoading
          /\ IF settles /\ Awaited(id)
             THEN /\ \E result \in Results :
                        messages' = Append(messages,
                            AnswerMessage(IF type = "ERROR" THEN "rejected" ELSE result))
                  /\ chatCall' = NoCall
             ELSE UNCHANGED <<messages, chatCall>>
    /\ UNCHANGED <<dataVars, workerInstance, workerRef, isInitializedRef, mountTimer,
                   nextId, retries, isOpen, running, generator, isInitializing, inbox,
                   handlers>>

\* worker.onerror of worker w
OnError(w) ==
    /\ w \in running
    /\ modelStatus' = "failed"
    /\ UNCHANGED <<dataVars, messages, chatCall, workerInstance, workerRef, pendingRequests, isInitializedRef,
                   mountTimer, requests, nextId, retries, isOpen, isLoading, workerVars>>

\* generateText, called by the chat's handleSendMessage (window open, not
\* already answering) when modelStatus is 'loaded'
generateText ==
    /\ isOpen /\ ~isLoading
    /\ modelStatus = "loaded"
    /\ sendWorkerMessage("GENERATE_TEXT", "generate", workerRef, pendingRequests, inbox)
    /\ isLoading' = (requests'[nextId].state = "pending")
    /\ UNCHANGED <<dataVars, modelStatus, workerInstance, workerRef, isInitializedRef,
                   mountTimer, retries, isOpen, running, generator, isInitializing,
                   outbox, handlers>>

\* variant of NotLoadedRejects: the request is sent all the same
NotLoadedRejects_Sends(ref, pending, boxes) ==
    sendWorkerMessage("GENERATE_TEXT", "direct", ref, pending, boxes)

\* generateText's throw new Error('Model not loaded'): the promise of the call
\* is rejected and sendWorkerMessage is not reached
NotLoadedRejects(ref, pending, boxes) ==
    /\ nextId <= MaxRequests
    /\ nextId' = nextId + 1
    /\ requests' = [requests EXCEPT ![nextId] =
           [type |-> "GENERATE_TEXT", origin |-> "direct", state |-> "rejected",
            by |-> "notloaded", timer |-> FALSE, calls |-> 0, answered |-> FALSE]]
    /\ pendingRequests' = pending
    /\ inbox' = boxes

\* generateText as the hook exports it, called by a consumer in any state
\* of the hook
CallGenerateText ==
    /\ IF modelStatus # "loaded"
       THEN NotLoadedRejects(workerRef, pendingRequests, inbox)
       ELSE sendWorkerMessage("GENERATE_TEXT", "direct", workerRef, pendingRequests, inbox)
    /\ UNCHANGED <<dataVars, messages, chatCall, modelStatus, workerInstance, workerRef,
                   isInitializedRef, mountTimer, retries, isOpen, isLoading, running,
                   generator, isInitializing, outbox, handlers>>

\* sendWorkerMessage called on its own in any state of the hook, also before
\* the mount effect has created the worker
CallSendWorkerMessage ==
    /\ sendWorkerMessage("INITIALIZE_MODEL", "direct", workerRef, pendingRequests, inbox)
    /\ UNCHANGED <<dataVars, messages, chatCall, modelStatus, workerInstance, workerRef,
                   isInitializedRef, mountTimer, retries, isOpen, isLoading, running,
                   generator, isInitializing, outbox, handlers>>

\* handleSendMessage with inputText = input; the input field and the send
\* button are in the open window and disabled while modelStatus is 'loading'.
\* With the model loaded the handler suspends at await generateText(...);
\* otherwise it runs to its end in one go.
handleSendMessage(input) ==
    /\ isOpen /\ modelStatus # "loading"
    /\ ~(Blank(input) \/ isLoading)
    /\ Len(messages) + 2 <= MaxMessages
    /\ LET userMessage == [isUser |-> TRUE, text |-> input, result |-> "none"]
           call == [k |-> "awaiting", request |-> nextId, currentInput |-> input,
                    dataContext |-> generateDataContext(dataPoints),
                    conversationHistory |-> createConversationContext(messages, input)]
       IN IF modelStatus = "loaded"
          THEN /\ generateText
               /\ IF requests'[nextId].state = "pending"
                  THEN /\ messages' = Append(messages, userMessage)
                       /\ chatCall' = call
                  ELSE /\ messages' = Append(Append(messages, userMessage),
                                             AssistantMessage(call, "rejected"))
                       /\ chatCall' = NoCall
          ELSE /\ messages' = Append(Append(messages, userMessage),
                                     AssistantMessage(call, "notloaded"))
               /\ UNCHANGED <<dataVars, chatCall, modelStatus, workerInstance, workerRef,
                              pendingRequests, isInitializedRef, mountTimer, requests,
                              nextId, retries, isOpen, isLoading, workerVars>>

\* variant of terminate: the old worker keeps running
terminate_Skipped(live, w) == live

\* workerRef.current.terminate(): the worker stops running
terminate(live, w) == live \ {w}

\* pendingRequests.current.clear()
RetryClear(pending) == {}

\* variant of RetryOffered: retryLoading can be called at any time
RetryOffered_Always == TRUE

\* the retry button is rendered in the open chat window while modelStatus is 'failed'
RetryOffered == isOpen /\ modelStatus = "failed"

\* retryLoading: a terminated worker handles nothing more and its
\* undelivered messages, in both directions, are discarded
retryLoading ==
    /\ RetryOffered
    /\ retries < MaxRetries
    /\ retries' = retries + 1
    /\ LET live == IF workerRef # 0 THEN terminate(running, workerRef) ELSE running
           instance == IF workerRef # 0 THEN 0 ELSE workerInstance
           created == instance = 0
           fresh == retries + 2
           gone == running \ live
       IN /\ workerInstance' = IF created THEN fresh ELSE instance
          /\ workerRef' = workerInstance'
          /\ running' = IF created THEN live \cup {fresh} ELSE live
          /\ generator' = [w \in Workers |-> IF w \in gone THEN "null" ELSE generator[w]]
          /\ isInitializing' = [w \in Workers |->
                                   IF w \in gone THEN FALSE ELSE isInitializing[w]]
          /\ handlers' = [w \in Workers |->
                             IF w \in gone THEN IdleHandlers ELSE handlers[w]]
          /\ outbox' = [w \in Workers |-> IF w \in gone THEN << >> ELSE outbox[w]]
          /\ LET boxes == [w \in Workers |-> IF w \in gone THEN << >> ELSE inbox[w]]
             IN IF created
                THEN sendWorkerMessage("INITIALIZE_MODEL", "retry", fresh,
                                       RetryClear(pendingRequests), boxes)
                ELSE /\ pendingRequests' = RetryClear(pendingRequests)
                     /\ inbox' = boxes
                     /\ UNCHANGED <<requests, nextId>>
    /\ modelStatus' = "loading"
    /\ isInitializedRef' = FALSE
    /\ UNCHANGED <<dataVars, messages, chatCall, mountTimer, isOpen, isLoading>>

\* the floating chat button, rendered while modelStatus is 'loaded'
ToggleChat ==
    /\ modelStatus = "loaded"
    /\ isOpen' = ~isOpen
    /\ UNCHANGED <<dataVars, messages, chatCall, modelStatus, workerInstance, workerRef, pendingRequests,
                   isInitializedRef, mountTimer, requests, nextId, retries, isLoading,
                   workerVars>>

\* the close button of the open chat window
CloseChat ==
    /\ isOpen
    /\ isOpen' = FALSE
    /\ UNCHANGED <<dataVars, messages, chatCall, modelStatus, workerInstance, workerRef, pendingRequests,
                   isInitializedRef, mountTimer, requests, nextId, retries, isLoading,
                   workerVars>>

(***************************************************************************)
(* Worker: self.onmessage, one action per stretch between awaits           *)
(***************************************************************************)
Post(box, id, type) == Append(box, Msg(id, type))

\* the INITIALIZE_MODEL guard: if (generator || isInitializing)
AlreadyLoading(w) == generator[w] # "null" \/ isInitializing[w]

\* worker w awaits a model load (a pipeline call) in its invocation for id
LoadInProgress(w, id) == w \in running /\ handlers[w][id] \in {"pipelineWebGPU", "pipelineWASM"}

\* worker w takes its oldest message and runs the handler to the first await
WorkerReceive(w) ==
    /\ w \in running
    /\ inbox[w] # << >>
    /\ LET id == Head(inbox[w]).id
           type == Head(inbox[w]).type
       IN /\ inbox' = [inbox EXCEPT ![w] = Tail(@)]
          /\ IF type = "INITIALIZE_MODEL"
             THEN IF AlreadyLoading(w)
                  THEN /\ outbox' = [outbox EXCEPT ![w] = Post(@, id, "MODEL_READY")]
                       /\ UNCHANGED <<isInitializing, handlers>>
                  ELSE /\ isInitializing' = [isInitializing EXCEPT ![w] = TRUE]
                       /\ outbox' = [outbox EXCEPT ![w] =
                                        Post(Post(@, id, "PROGRESS"), id, "PROGRESS")]
                       /\ handlers' = [handlers EXCEPT ![w][id] = "yieldWebGPU"]
             ELSE IF generator[w] = "null"
                  THEN /\ outbox' = [outbox EXCEPT ![w] = Post(@, id, "ERROR")]
                       /\ UNCHANGED <<isInitializing, handlers>>
                  ELSE /\ handlers' = [handlers EXCEPT ![w][id] = "generating"]
                       /\ UNCHANGED <<isInitializing, outbox>>
    /\ UNCHANGED <<dataVars, hookVars, running, generator>>

\* await progressiveYield(3) returns; pipeline(...) is called (WebGPU)
WorkerStartWebGPU(w, id) ==
    /\ w \in running
    /\ handlers[w][id] = "yieldWebGPU"
    /\ handlers' = [handlers EXCEPT ![w][id] = "pipelineWebGPU"]
    /\ UNCHANGED <<dataVars, hookVars, running, generator, isInitializing, inbox, outbox>>

\* variant of WebGPUFailed: no fallback, the failure is reported at once
WebGPUFailed_NoFallback(w, id) ==
    /\ outbox' = [outbox EXCEPT ![w] = Post(@, id, "ERROR")]
    /\ handlers' = [handlers EXCEPT ![w][id] = "idle"]

\* variant of WebGPUFailed: the failure is reported before the fallback starts
WebGPUFailed_Reported(w, id) ==
    /\ outbox' = [outbox EXCEPT ![w] = Post(Post(@, id, "ERROR"), id, "PROGRESS")]
    /\ handlers' = [handlers EXCEPT ![w][id] = "yieldWASM"]

\* the catch (webgpuError) block up to its await
WebGPUFailed(w, id) ==
    /\ outbox' = [outbox EXCEPT ![w] = Post(@, id, "PROGRESS")]
    /\ handlers' = [handlers EXCEPT ![w][id] = "yieldWASM"]

\* the WebGPU pipeline call returns (ok) or throws
WorkerWebGPULoaded(w, id, ok) ==
    /\ w \in running
    /\ handlers[w][id] = "pipelineWebGPU"
    /\ IF ok
       THEN /\ generator' = [generator EXCEPT ![w] = "webgpu"]
            /\ outbox' = [outbox EXCEPT ![w] = Post(@, id, "PROGRESS")]
            /\ handlers' = [handlers EXCEPT ![w][id] = "testWebGPU"]
       ELSE /\ WebGPUFailed(w, id)
            /\ UNCHANGED generator
    /\ UNCHANGED <<dataVars, hookVars, running, isInitializing, inbox>>

\* the test call generator('Hello') returns (ok) or throws
WorkerWebGPUTested(w, id, ok) ==
    /\ w \in running
    /\ handlers[w][id] = "testWebGPU"
    /\ IF ok
       THEN /\ outbox' = [outbox EXCEPT ![w] = Post(@, id, "MODEL_READY")]
            /\ handlers' = [handlers EXCEPT ![w][id] = "idle"]
            /\ isInitializing' = [isInitializing EXCEPT ![w] = FALSE]
       ELSE /\ WebGPUFailed(w, id)
            /\ UNCHANGED isInitializing
    /\ UNCHANGED <<dataVars, hookVars, running, generator, inbox>>

\* await progressiveYield(5) returns; pipeline(...) is called (WASM)
WorkerStartWASM(w, id) ==
    /\ w \in running
    /\ handlers[w][id] = "yieldWASM"
    /\ handlers' = [handlers EXCEPT ![w][id] = "pipelineWASM"]
    /\ UNCHANGED <<dataVars, hookVars, running, generator, isInitializing, inbox, outbox>>

\* the WASM pipeline call returns (ok) or throws; finally isInitializing = false;
\* a throw reaches the outer catch, which posts ERROR
WorkerWASMLoaded(w, id, ok) ==
    /\ w \in running
    /\ handlers[w][id] = "pipelineWASM"
    /\ generator' = [generator EXCEPT ![w] = IF ok THEN "wasm" ELSE @]
    /\ outbox' = [outbox EXCEPT ![w] = Post(@, id, IF ok THEN "MODEL_READY" ELSE "ERROR")]
    /\ handlers' = [handlers EXCEPT ![w][id] = "idle"]
    /\ isInitializing' = [isInitializing EXCEPT ![w] = FALSE]
    /\ UNCHANGED <<dataVars, hookVars, running, inbox>>

\* await generator(prompt, generationOptions) returns (ok) or throws
WorkerGenerated(w, id, ok) ==
    /\ w \in running
    /\ handlers[w][id] = "generating"
    /\ outbox' = [outbox EXCEPT ![w] = Post(@, id, IF ok THEN "TEXT_GENERATED" ELSE "ERROR")]
    /\ handlers' = [handlers EXCEPT ![w][id] = "idle"]
    /\ UNCHANGED <<dataVars, hookVars, running, generator, isInitializing, inbox>>

(***************************************************************************)
(* User events on the dataset                                              *)
(***************************************************************************)
\* a point is submitted through the form (the fields are empty again afterwards)
AddPoint ==
    /\ \E point \in PointDomain : handleDataAdd(point)
    /\ computed' = NotComputed
    /\ UNCHANGED <<x, y, hoveredPointIndex, hookVars, workerVars>>

\* a point is submitted while the dataset has fewer than MaxFitPoints points
AddFitPoint ==
    /\ Len(dataPoints) < MaxFitPoints
    /\ AddPoint

\* a point is submitted while the dataset has fewer than MaxComputedPoints points
AddComputedPoint ==
    /\ Len(dataPoints) < MaxComputedPoints
    /\ AddPoint

\* the Clear All button
ClearAll ==
    /\ handleClear
    /\ computed' = NotComputed
    /\ UNCHANGED <<x, y, hoveredPointIndex, hookVars, workerVars>>

\* the delete button of a rendered row
DeletePoint ==
    /\ \E index \in 1..Len(dataPoints) : handleDeletePoint(index)
    /\ computed' = NotComputed
    /\ UNCHANGED <<x, y, hoveredPointIndex, hookVars, workerVars>>

\* variant of ReadBy: the x values are sorted in place before Math.min
ReadBy_SortedInPlace(data) ==
    IF Len(data) >= 2 /\ data[1].x > data[2].x
    THEN [data EXCEPT ![1] = data[2], ![2] = data[1]]
    ELSE data

\* the dataset after the consumers have read it: reduce, map, filter and the
\* spread into Math.min build new values and leave the array as it was
ReadBy(data) == data

\* the statistics consumers run on the dataset: RegressionCalculations, the
\* chart and the table on a render, generateDataContext for a chat message
ComputeStatistics ==
    /\ computed' = [k |-> "computed",
                    stats |-> calculateStats(dataPoints),
                    regression |-> calculateRegression(dataPoints),
                    table |-> TableView(dataPoints),
                    context |-> generateDataContext(dataPoints)]
    /\ dataPoints' = ReadBy(dataPoints)
    /\ UNCHANGED <<x, y, hoveredPointIndex, hookVars, workerVars>>

\* what a user types at length, and how long the generated answers get
UserLengths == {4, 14289, 14600}

AssistantLengths == {13, 289}

\* one question and its answer have gone through the chat: a user message of
\* userLength characters and a generated answer of assistantLength characters
\* (the hook and the window are left as they are)
Exchange(userLength, assistantLength) ==
    /\ Len(messages) + 2 <= MaxTranscript
    /\ messages' = messages \o
           << [isUser |-> TRUE, text |-> LongText(userLength), result |-> "none"],
              [isUser |-> FALSE, text |-> LongText(assistantLength), result |-> "text"] >>
    /\ UNCHANGED <<dataVars, chatCall, modelStatus, workerInstance, workerRef,
                   pendingRequests, isInitializedRef, mountTimer, requests, nextId,
                   retries, isOpen, isLoading, workerVars>>

\* the points entered in the specification of the chart: two close x values
\* and one far from them
ChartPointDomain == {[x |-> px, y |-> py] : px \in {1, 2, 200}, py \in {1, 3}}

\* a point is submitted while the dataset has fewer than MaxChartPoints points
AddChartPoint ==
    /\ Len(dataPoints) < MaxChartPoints
    /\ \E point \in ChartPointDomain : handleDataAdd(point)
    /\ computed' = NotComputed
    /\ UNCHANGED <<x, y, hoveredPointIndex, hookVars, workerVars>>

\* onMouseEnter of a rendered table row
EnterRow ==
    /\ \E index \in 1..Len(dataPoints) : handlePointHover(index)
    /\ UNCHANGED <<dataPoints, x, y, computed, hookVars, workerVars>>

\* onMouseLeave of the hovered table row
LeaveRow ==
    /\ hoveredPointIndex # NullIndex
    /\ handlePointHover(NullIndex)
    /\ UNCHANGED <<dataPoints, x, y, computed, hookVars, workerVars>>

\* the user edits the X field
EditX ==
    /\ \E text \in FieldTexts : setX(text)
    /\ UNCHANGED <<dataPoints, y, hoveredPointIndex, computed, hookVars, workerVars>>

\* the user edits the Y field
EditY ==
    /\ \E text \in FieldTexts : setY(text)
    /\ UNCHANGED <<dataPoints, x, hoveredPointIndex, computed, hookVars, workerVars>>

\* the Add Point button
Submit ==
    /\ handleSubmit
    /\ computed' = (IF dataPoints' = dataPoints THEN computed ELSE NotComputed)
    /\ UNCHANGED <<hoveredPointIndex, hookVars, workerVars>>

\* the Enter key in the Y field
EnterInY ==
    /\ \E implicit \in ImplicitSubmissions : PressEnterInY(implicit)
    /\ computed' = (IF dataPoints' = dataPoints THEN computed ELSE NotComputed)
    /\ UNCHANGED <<hoveredPointIndex, hookVars, workerVars>>

(***************************************************************************)
(* Specifications                                                          *)
(***************************************************************************)
Init == DataInit /\ WorkerInit

\* the dataset and its statistics consumers
Next == AddPoint \/ ClearAll \/ DeletePoint

Spec == Init /\ [][Next]_vars

\* the same, for datasets of at most MaxFitPoints points
FitNext == AddFitPoint \/ ClearAll \/ DeletePoint

FitSpec == Init /\ [][FitNext]_vars

\* datasets of at most MaxComputedPoints points and the statistics computed
\* from them
StatsNext == AddComputedPoint \/ ClearAll \/ DeletePoint \/ ComputeStatistics

StatsSpec == Init /\ [][StatsNext]_vars

\* the dataset, the hovered table row and the chart drawn from them
ChartNext == AddChartPoint \/ ClearAll \/ DeletePoint \/ EnterRow \/ LeaveRow

ChartSpec == Init /\ [][ChartNext]_vars

\* the chat's message list and the history built from it
ContextNext ==
    \E userLength \in UserLengths, assistantLength \in AssistantLengths :
        Exchange(userLength, assistantLength)

ContextSpec == Init /\ [][ContextNext]_vars

\* the form: typing in the fields and submitting them
FormNext == EditX \/ EditY \/ Submit \/ EnterInY \/ ClearAll

FormSpec == Init /\ [][FormNext]_vars

\* the hook, the chat's use of it, and the workers
WorkerNext ==
    \/ MountEffect
    \/ MountTimerFires
    \/ \E id \in Ids : RequestTimeout(id)
    \/ \E w \in Workers : OnMessage(w)
    \/ \E w \in Workers : OnError(w)
    \/ \E input \in Inputs : handleSendMessage(input)
    \/ retryLoading
    \/ ToggleChat
    \/ CloseChat
    \/ \E w \in Workers : WorkerReceive(w)
    \/ \E w \in Workers, id \in Ids : WorkerStartWebGPU(w, id)
    \/ \E w \in Workers, id \in Ids : WorkerStartWASM(w, id)
    \/ \E w \in Workers, id \in Ids, ok \in BOOLEAN : WorkerWebGPULoaded(w, id, ok)
    \/ \E w \in Workers, id \in Ids, ok \in BOOLEAN : WorkerWebGPUTested(w, id, ok)
    \/ \E w \in Workers, id \in Ids, ok \in BOOLEAN : WorkerWASMLoaded(w, id, ok)
    \/ \E w \in Workers, id \in Ids, ok \in BOOLEAN : WorkerGenerated(w, id, ok)

WorkerSpec == Init /\ [][WorkerNext]_vars

\* the hook's functions called one by one in any state of a mounted or not
\* yet mounted hook, with its worker; no chat window, hence no retry
HookCallNext ==
    \/ MountEffect
    \/ MountTimerFires
    \/ \E id \in Ids : RequestTimeout(id)
    \/ \E w \in Workers : OnMessage(w)
    \/ \E w \in Workers : OnError(w)
    \/ CallGenerateText
    \/ CallSendWorkerMessage
    \/ \E w \in Workers : WorkerReceive(w)
    \/ \E w \in Workers, id \in Ids : WorkerStartWebGPU(w, id)
    \/ \E w \in Workers, id \in Ids : WorkerStartWASM(w, id)
    \/ \E w \in Workers, id \in Ids, ok \in BOOLEAN : WorkerWebGPULoaded(w, id, ok)
    \/ \E w \in Workers, id \in Ids, ok \in BOOLEAN : WorkerWebGPUTested(w, id, ok)
    \/ \E w \in Workers, id \in Ids, ok \in BOOLEAN : WorkerWASMLoaded(w, id, ok)
    \/ \E w \in Workers, id \in Ids, ok \in BOOLEAN : WorkerGenerated(w, id, ok)

HookCallSpec == Init /\ [][HookCallNext]_vars

\* timers fire: an armed 60 s timeout or the 2 s mount delay is not postponed forever
TimerFairness ==
    /\ \A id \in Ids : WF_vars(RequestTimeout(id))
    /\ WF_vars(MountTimerFires)

WorkerLiveSpec == WorkerSpec /\ TimerFairness

\* both event loops run their queued tasks: posted messages are handled and
\* the worker's yields return; only the pipeline and generator calls, which
\* wait on the model download and the runtime, may take forever
EventLoopFairness ==
    /\ TimerFairness
    /\ \A w \in Workers : WF_vars(OnMessage(w)) /\ WF_vars(WorkerReceive(w))
    /\ \A w \in Workers, id \in Ids :
           WF_vars(WorkerStartWebGPU(w, id)) /\ WF_vars(WorkerStartWASM(w, id))

WorkerFairSpec == WorkerSpec /\ EventLoopFairness

\* the worker's awaits all come back: its yields, and every pipeline and
\* generator call returns or throws
CallsReturn ==
    \A w \in Workers, id \in Ids :
        /\ WF_vars(WorkerStartWebGPU(w, id))
        /\ WF_vars(WorkerStartWASM(w, id))
        /\ WF_vars(\E ok \in BOOLEAN : WorkerWebGPULoaded(w, id, ok))
        /\ WF_vars(\E ok \in BOOLEAN : WorkerWebGPUTested(w, id, ok))
        /\ WF_vars(\E ok \in BOOLEAN : WorkerWASMLoaded(w, id, ok))
        /\ WF_vars(\E ok \in BOOLEAN : WorkerGenerated(w, id, ok))

WorkerReturnSpec == WorkerSpec /\ CallsReturn

(***************************************************************************)
(* Properties of the statistics consumers                                  *)
(***************************************************************************)
AllXEqual(data) == \A i, j \in 1..Len(data) : data[i].x = data[j].x

\* a slope output that is a degenerate-regression signal: neither a number
\* (finite, NaN, Infinity) nor the text of one
DegenerateSignaled(out) == out.k \notin {"fin", "nan", "inf", "decimal", "NaN", "Infinity"}

\* C1: for every dataset with n >= 2 whose x values are all equal, every
\* statistics consumer (calculateStats, the table rows, generateDataContext)
\* signals a degenerate regression instead of a slope that is NaN, Infinity
\* or a substituted number.
C1_DegenerateSignaled ==
    (Len(dataPoints) >= 2 /\ AllXEqual(dataPoints)) =>
        /\ LET stats == calculateStats(dataPoints)
           IN stats.k = "stats" => DegenerateSignaled(stats.slope)
        /\ \A i \in 1..Len(dataPoints) : DegenerateSignaled(TableRow(dataPoints, i).slope)
        /\ LET ctx == generateDataContext(dataPoints)
           IN ctx.k = "context" => DegenerateSignaled(ctx.slope)

\* C2: for every dataset with fewer than 2 points no statistics consumer
\* evaluates slope = SCP/SXX; each treats the dataset as insufficient data
\* (calculateStats and calculateRegression return null, the table is not
\* rendered, the chat context carries no regression).
C2_InsufficientData ==
    Len(dataPoints) < 2 =>
        /\ calculateStats(dataPoints) = Null
        /\ calculateRegression(dataPoints) = Null
        /\ TableView(dataPoints).k = "hidden"
        /\ generateDataContext(dataPoints).k = "nodata"

\* C3: for every dataset, the slope and intercept embedded in the chat
\* context are the values calculateStats computes (at the context's three
\* decimal places); a context with a regression exists only when
\* calculateStats yields one.
C3_ContextMatchesStats ==
    LET ctx == generateDataContext(dataPoints)
        stats == calculateStats(dataPoints)
    IN ctx.k = "context" =>
        /\ stats.k = "stats"
        /\ ctx.slope = toFixed(stats.slope, 3)
        /\ ctx.intercept = toFixed(stats.intercept, 3)

\* the dataset is the fixture, in any order of entry
IsFixture(data) ==
    /\ Len(data) = Len(FixturePoints)
    /\ \A i \in 1..Len(FixturePoints) : \E j \in 1..Len(data) : data[j] = FixturePoints[i]

\* the statistics of the panel and of every table row
FixtureStats(data, mx, my, sx, sc, b1, b0) ==
    /\ meanX(data) = mx /\ meanY(data) = my
    /\ LET stats == calculateStats(data)
       IN /\ stats.k = "stats"
          /\ stats.meanX = mx /\ stats.meanY = my
          /\ stats.sxx = sx /\ stats.scp = sc
          /\ stats.slope = b1 /\ stats.intercept = b0
    /\ FooterSXX(data) = sx /\ FooterSCP(data) = sc
    /\ \A i \in 1..Len(data) :
           /\ TableRow(data, i).slope = b1
           /\ TableRow(data, i).intercept = b0

\* C4 as stated: for the fixture {(1,2),(2,4),(3,5),(4,4),(5,5)} meanX = 3,
\* meanY = 4, SXX = 10, SCP = 9, slope = 0.9, intercept = 1.3 and the
\* predicted values are [2.2, 3.1, 4.0, 4.9, 5.8].
C4_FixtureAsStated ==
    IsFixture(dataPoints) =>
        /\ FixtureStats(dataPoints, Int2Num(3), Int2Num(4), Int2Num(10), Int2Num(9),
                        Fin(9, 10), Fin(13, 10))
        /\ \A i \in 1..Len(dataPoints) :
               TableRow(dataPoints, i).yPredicted = Fin(13 + 9 * dataPoints[i].x, 10)

\* C4 amended: for the fixture meanX = 3, meanY = 4, SXX = 10, SCP = 6,
\* slope = 0.6, intercept = 2.2 and the predicted values are
\* [2.8, 3.4, 4.0, 4.6, 5.2] (for x = 1..5).
C4_Fixture ==
    IsFixture(dataPoints) =>
        /\ FixtureStats(dataPoints, Int2Num(3), Int2Num(4), Int2Num(10), Int2Num(6),
                        Fin(6, 10), Fin(22, 10))
        /\ \A i \in 1..Len(dataPoints) :
               TableRow(dataPoints, i).yPredicted = Fin(22 + 6 * dataPoints[i].x, 10)

\* the fixture entered in the order of the specification
C4_Witness == dataPoints = FixturePoints /\ calculateStats(dataPoints).k = "stats"

\* C5: for the fixture, R^2 = 1 - SSres/SStot over the residual and total
\* sums of squares of the fitted line equals 0.6.
C5_FixtureR2 == IsFixture(dataPoints) => R2(dataPoints) = Fin(6, 10)

\* the fixture entered in another order, with its sums of squares
C5_Witness ==
    /\ IsFixture(dataPoints) /\ dataPoints # FixturePoints
    /\ FooterSStot(dataPoints) = Int2Num(6)
    /\ FooterSSres(dataPoints) = Fin(24, 10)

(***************************************************************************)
(* Properties of the hook and the workers                                  *)
(***************************************************************************)
Settled(i) == requests[i].state \in {"resolved", "rejected"}

\* C6: every promise of sendWorkerMessage is settled at most once, by one
\* matching reply (resolved), one ERROR reply or the timeout (rejected);
\* a late reply, a late timeout or retryLoading never settles it again.
C6_SettlesOnce ==
    \A i \in Ids :
        /\ requests[i].calls <= 1
        /\ Settled(i) <=> requests[i].calls = 1
        /\ requests[i].state = "resolved" => requests[i].by = "reply"
        /\ requests[i].state = "rejected" => requests[i].by \in {"error", "timeout"}

\* a request that timed out and whose reply arrived afterwards, and one
\* that was resolved by its reply
C6_Witness ==
    /\ \E i \in Ids : requests[i].by = "timeout" /\ requests[i].answered
    /\ \E i \in Ids : requests[i].by = "reply"

\* C7: at any time at most one model load (pipeline call) is in progress in
\* the whole application.
C7_OneLoad ==
    Cardinality({wi \in Workers \X Ids : LoadInProgress(wi[1], wi[2])}) <= 1

\* a load in progress in the worker created by the second retry
C7_Witness ==
    /\ retries >= 2
    /\ \E w \in Workers, i \in Ids : LoadInProgress(w, i) /\ running = {w}

\* C8: every promise of sendWorkerMessage eventually settles; one whose
\* entry was cleared by retryLoading (its worker terminated) is rejected by
\* the timeout.
C8_EventuallySettles ==
    \A i \in Ids :
        /\ (requests[i].state = "pending") ~> Settled(i)
        /\ (requests[i].state = "pending" /\ i \notin pendingRequests)
               ~> (requests[i].by = "timeout")

\* a pending request whose table entry retryLoading has cleared
C8_Witness ==
    \E i \in Ids : /\ requests[i].state = "pending"
                   /\ i \notin pendingRequests
                   /\ retries > 0

\* C9: if an INITIALIZE_MODEL request never receives MODEL_READY or ERROR,
\* modelStatus eventually becomes 'failed', for the load started on mount
\* and for a load started by retryLoading.
C9_HungLoadFails ==
    \A i \in Ids :
        (requests[i].type = "INITIALIZE_MODEL" /\ requests[i].state = "pending")
            ~> (requests[i].answered \/ modelStatus = "failed")

\* C10: whenever a request's promise has settled, pendingRequests holds no
\* entry for its id: the table contains only ids of unsettled requests.
C10_OnlyUnsettled ==
    \A i \in Ids : Settled(i) => i \notin pendingRequests

\* each way of settling has happened and another request is still in the table
C10_Witness ==
    /\ \E i \in Ids : requests[i].by = "error"
    /\ \E i \in Ids : requests[i].by = "timeout"
    /\ pendingRequests # {}

\* C11: a MODEL_READY, TEXT_GENERATED or ERROR message carrying id i settles
\* only the pending request registered under id i; a message whose id is not
\* in the pending table (timed out, cleared by retryLoading, unknown), and
\* any PROGRESS message, settles no promise.
C11_ReplyPairsById ==
    [][\A w \in Workers :
          OnMessage(w) =>
              LET m == Head(outbox[w])
                  final == m.type \in {"MODEL_READY", "TEXT_GENERATED", "ERROR"}
              IN /\ \A j \in Ids \ {m.id} :
                        /\ requests'[j].calls = requests[j].calls
                        /\ requests'[j].state = requests[j].state
                 /\ IF final /\ m.id \in pendingRequests
                    THEN /\ requests[m.id].state = "pending"
                         /\ requests'[m.id].calls = 1
                         /\ requests'[m.id].state =
                                (IF m.type = "ERROR" THEN "rejected" ELSE "resolved")
                    ELSE /\ requests'[m.id].calls = requests[m.id].calls
                         /\ requests'[m.id].state = requests[m.id].state]_vars

\* a reply that arrived after its request had timed out, while another
\* request has been rejected by its ERROR reply
C11_Witness ==
    \E i, j \in Ids :
        /\ i # j
        /\ requests[i].by = "timeout" /\ requests[i].answered /\ requests[i].calls = 1
        /\ requests[j].by = "error" /\ requests[j].answered

\* worker w posts exactly the message (id, type) in this step
Posts(w, id, type) ==
    /\ Len(outbox'[w]) = Len(outbox[w]) + 1
    /\ outbox'[w][Len(outbox'[w])] = Msg(id, type)

\* C12: in the worker's INITIALIZE_MODEL handling the providers are tried in
\* the order WebGPU, WASM: the WASM load is attempted only after the WebGPU
\* attempt (pipeline or its test call) has failed, a successful WebGPU
\* attempt sends MODEL_READY and ends the handler without attempting WASM,
\* and ERROR is sent only when the WASM attempt has failed as well.
C12_ProviderOrder ==
    [][\A w \in Workers, id \in Ids :
          LET from == handlers[w][id]
              to == handlers'[w][id]
          IN /\ (to = "pipelineWebGPU" /\ from # to) => from = "yieldWebGPU"
             /\ (to = "yieldWASM" /\ from # to) =>
                    /\ from \in {"pipelineWebGPU", "testWebGPU"}
                    /\ Posts(w, id, "PROGRESS")
             /\ (to = "pipelineWASM" /\ from # to) => from = "yieldWASM"
             /\ (from = "testWebGPU" /\ to = "idle" /\ w \in running') =>
                    Posts(w, id, "MODEL_READY")
             /\ (from = "idle" /\ to # from) => to \in {"yieldWebGPU", "generating"}
             /\ (requests[id].type = "INITIALIZE_MODEL" /\ Posts(w, id, "ERROR")) =>
                    from = "pipelineWASM" /\ to = "idle"
             /\ (Posts(w, id, "MODEL_READY") /\ from # "idle") =>
                    from \in {"testWebGPU", "pipelineWASM"} /\ to = "idle"]_vars

\* one load has been answered with MODEL_READY and a later one, in another
\* worker, has posted ERROR after both attempts
C12_Witness ==
    \E i, j \in Ids, w \in Workers :
        /\ requests[i].type = "INITIALIZE_MODEL" /\ requests[i].by = "reply"
        /\ requests[j].type = "INITIALIZE_MODEL"
        /\ outbox[w] # << >>
        /\ outbox[w][Len(outbox[w])] = Msg(j, "ERROR")

(***************************************************************************)
(* Properties of the chat                                                  *)
(***************************************************************************)
\* questions with every combination of the keywords that select a branch
FallbackQuestions ==
    {Text("question", words) :
        words \in SUBSET {"and", "r", "slope", "line", "r-squared"}}

\* histories: none, one without and one with the words looked for
FallbackHistories ==
    { << >>,
      << [isUser |-> TRUE, text |-> Text("hello", {}), result |-> "none"] >>,
      << [isUser |-> TRUE, text |-> Text("slope and correlation", {"slope", "correlation"}),
          result |-> "none"] >> }

\* getSimpleResponse returns a non-empty text for every question, with and
\* without data and history
FallbackNonEmpty ==
    \A question \in FallbackQuestions, history \in FallbackHistories,
       data \in {<< >>, <<FixturePoints[1]>>, FixturePoints} :
        getSimpleResponse(question, generateDataContext(data), history).s # ""

\* the list is the greeting and then user and assistant messages in turn,
\* the last user message unanswered exactly while isLoading
ChatAlternates ==
    /\ messages[1] = Greeting
    /\ \A k \in 2..Len(messages) : messages[k].isUser <=> (k % 2 = 0)
    /\ isLoading <=> (Len(messages) % 2 = 0)
    /\ isLoading <=> chatCall.k = "awaiting"

\* every assistant message is non-empty; it is the cleaned model text only
\* when generateText resolved with usable text, and the fallback otherwise
ChatAnswers ==
    \A k \in 3..Len(messages) :
        ~messages[k].isUser =>
            LET m == messages[k]
                fallback == getSimpleResponse(messages[k - 1].text,
                                              generateDataContext(dataPoints),
                                              SubSeq(messages, 2, k - 2))
            IN /\ m.text.s # ""
               /\ m.result \in {"notloaded", "rejected"} \cup Results
               /\ IF m.result = "text" THEN m.text = CleanResponse("text")
                                       ELSE m.text = fallback

\* one step of the chat: a passing call appends the user message, and with
\* the model not loaded the fallback as well; the settling of the awaited
\* promise appends the one assistant message, the fallback if it was rejected
ChatStep ==
    LET n == Len(messages)
        grown == Len(messages') - n
    IN /\ grown \in {0, 1, 2}
       /\ grown > 0 => SubSeq(messages', 1, n) = messages
       /\ grown = 2 => /\ ~isLoading /\ ~isLoading'
                       /\ modelStatus # "loaded"
                       /\ messages'[n + 1].isUser /\ ~Blank(messages'[n + 1].text)
                       /\ messages'[n + 2].result = "notloaded"
       /\ (grown = 1 /\ ~isLoading) =>
              /\ isLoading' /\ modelStatus = "loaded"
              /\ messages'[n + 1].isUser /\ ~Blank(messages'[n + 1].text)
       /\ (grown = 1 /\ isLoading) =>
              /\ ~isLoading'
              /\ requests'[chatCall.request].state \in {"resolved", "rejected"}
              /\ requests[chatCall.request].state = "pending"
              /\ requests'[chatCall.request].state = "rejected"
                     <=> messages'[n + 1].result = "rejected"
       /\ \A i \in Ids :
              (requests[i].origin = "generate" /\ requests[i].state = "pending"
                  /\ requests'[i].state # "pending") => (grown = 1 /\ isLoading)

\* C13: every handleSendMessage call that passes its guard appends exactly
\* one user message followed by exactly one assistant message and ends with
\* isLoading = false; when modelStatus is not 'loaded', or generateText
\* rejects or times out, or yields no usable text, the assistant message is
\* the non-empty getSimpleResponse fallback.
C13_OneAnswerPerCall ==
    /\ [](FallbackNonEmpty /\ ChatAlternates /\ ChatAnswers)
    /\ [][ChatStep]_vars
    /\ (isLoading ~> ~isLoading)

\* two exchanges: one answered by the fallback after the awaited request
\* timed out, one answered by the fallback because the text was unusable
C13_Witness ==
    /\ Len(messages) = 5
    /\ ~isLoading
    /\ \E k \in {3, 5} : messages[k].result = "rejected"
                          /\ \E i \in Ids : requests[i].origin = "generate"
                                            /\ requests[i].by = "timeout"
    /\ \E k \in {3, 5} : messages[k].result = "short"

(***************************************************************************)
(* Properties of the statistics: degenerate cases and identities           *)
(***************************************************************************)
\* (n * sumXX - sumX^2)(n * sumYY - sumY^2), the radicand of the correlation
\* denominator, is 0 (and so is its square root)
CorrelationDenominatorZero(data) ==
    LET n == NumLen(data)
    IN IsZero(NumMul(NumSub(NumMul(n, sumXX(data)), NumMul(sumX(data), sumX(data))),
                     NumSub(NumMul(n, sumYY(data)), NumMul(sumY(data), sumY(data)))))

\* C14: for every dataset for which the correlation denominator
\* sqrt((n*sumXX - sumX^2)(n*sumYY - sumY^2)) is 0, the correlation
\* coefficient is reported as undefined rather than as a number.
C14_CorrelationUndefined ==
    LET ctx == generateDataContext(dataPoints)
    IN (ctx.k = "context" /\ CorrelationDenominatorZero(dataPoints)) =>
           DegenerateSignaled(ctx.correlation)

AllYEqual(data) == \A i, j \in 1..Len(data) : data[i].y = data[j].y

\* the first two parts of C15: slope 0 and intercept c for constant y
ConstantYLine(data) ==
    (Len(data) >= 2 /\ AllYEqual(data) /\ ~AllXEqual(data)) =>
        /\ slope(data) = Int2Num(0)
        /\ intercept(data) = Int2Num(data[1].y)

\* C15: for every dataset with n >= 2 in which all y values equal one
\* constant c and the x values are not all equal, the computed slope is 0,
\* the intercept is c, and R^2 is signaled as undefined rather than given a
\* numeric value.
C15_ConstantY ==
    (Len(dataPoints) >= 2 /\ AllYEqual(dataPoints) /\ ~AllXEqual(dataPoints)) =>
        /\ ConstantYLine(dataPoints)
        /\ DegenerateSignaled(R2(dataPoints))

\* C16: for every dataset with n >= 1 the shortcut forms of calculateStats
\* (SXX = sumXX - sumX^2/n, SCP = sumXY - sumX*sumY/n) equal, in exact
\* arithmetic, the deviation forms summed in the table footer, so the panel
\* and the table show the same SXX and SCP.
C16_ShortcutEqualsDeviation ==
    Len(dataPoints) >= 1 =>
        LET footerSXX == FooterSXX(dataPoints)
            footerSCP == FooterSCP(dataPoints)
            stats == calculateStats(dataPoints)
        IN /\ sxx(dataPoints) = footerSXX
           /\ scp(dataPoints) = footerSCP
           /\ stats.k = "stats" =>
                  /\ toFixed(stats.sxx, 4) = toFixed(footerSXX, 4)
                  /\ toFixed(stats.scp, 4) = toFixed(footerSCP, 4)

\* a dataset with fractional means, shown by the panel and by the table,
\* whose SCP is negative
C16_Witness ==
    /\ calculateStats(dataPoints).k = "stats"
    /\ meanX(dataPoints).d # 1 /\ meanY(dataPoints).d # 1
    /\ FooterSCP(dataPoints).n < 0
    /\ FooterSXX(dataPoints).n > 0

Permuted(data, p) == [i \in 1..Len(data) |-> data[p[i]]]

\* point a comes before point b in the canonical order
Before(a, b) == a.x < b.x \/ (a.x = b.x /\ a.y <= b.y)

\* sorted with point inserted at its place
RECURSIVE Inserted(_, _)
Inserted(sorted, point) ==
    IF sorted = << >> THEN << point >>
    ELSE IF Before(point, Head(sorted)) THEN << point >> \o sorted
    ELSE << Head(sorted) >> \o Inserted(Tail(sorted), point)

\* the points of data in the canonical order
RECURSIVE Canonical(_)
Canonical(data) ==
    IF data = << >> THEN << >>
    ELSE Inserted(Canonical(Tail(data)), Head(data))

\* slope, intercept and R^2 of a dataset
LineAndR2(data) == << slope(data), intercept(data), R2(data) >>

\* C17: for every dataset with n >= 2 and SXX != 0, and every permutation of
\* its points, slope, intercept and R^2 computed on the permuted sequence
\* equal those computed on the original sequence (in exact arithmetic).
\* Every permutation is enumerated for datasets of up to MaxPermuted points;
\* a longer dataset is compared with its canonical order, which all of its
\* permutations (each of them a dataset of the model) share.
C17_OrderInvariant ==
    (Len(dataPoints) >= 2 /\ ~IsZero(sxx(dataPoints))) =>
        LET original == LineAndR2(dataPoints)
        IN /\ Len(dataPoints) <= MaxPermuted =>
                  \A p \in Permutations(1..Len(dataPoints)) :
                      LineAndR2(Permuted(dataPoints, p)) = original
           /\ LineAndR2(Canonical(dataPoints)) = original

\* three points entered out of order, with a fractional slope and R^2
C17_Witness ==
    /\ Len(dataPoints) = 3
    /\ dataPoints # Canonical(dataPoints)
    /\ ~IsZero(sxx(dataPoints))
    /\ slope(dataPoints).k = "fin" /\ slope(dataPoints).d # 1
    /\ R2(dataPoints).k = "fin" /\ R2(dataPoints).d # 1

\* candidate lines y = (k / GridDen) x + j / GridDen: slopes from -2 to 2 and
\* intercepts from -1 to 6
GridLines == ((-2 * GridDen)..(2 * GridDen)) \X ((-GridDen)..(6 * GridDen))

\* GridDen^2 times the sum of squared residuals of candidate line <<k, j>>
RECURSIVE ScaledSSres(_, _, _, _)
ScaledSSres(data, i, k, j) ==
    IF i = 0 THEN 0
    ELSE LET r == GridDen * data[i].y - k * data[i].x - j
         IN ScaledSSres(data, i - 1, k, j) + r * r

\* the sum of squared residuals of candidate line as a number
GridSSres(data, line) ==
    Fin(ScaledSSres(data, Len(data), line[1], line[2]), GridDen * GridDen)

\* a <= b for finite a and b
NumLeq(a, b) == a.k = "fin" /\ b.k = "fin" /\ NumSub(b, a).n >= 0

\* C18: for every dataset with n >= 2 and SXX != 0, the sum of squared
\* residuals of the line (slope, intercept) computed by the code is less than
\* or equal to the sum of squared residuals of every other line (a, b) taken
\* from a bounded grid of candidate slopes and intercepts.
C18_LeastSquares ==
    (Len(dataPoints) >= 2 /\ ~IsZero(sxx(dataPoints))) =>
        LET fitted == FooterSSres(dataPoints)
        IN \A line \in GridLines : NumLeq(fitted, GridSSres(dataPoints, line))

\* a dataset off any line whose fitted line is a line of the grid, so that
\* one candidate ties and the others do not
C18_Witness ==
    /\ Len(dataPoints) >= 3 /\ ~IsZero(sxx(dataPoints))
    /\ FooterSSres(dataPoints).n > 0
    /\ \E line \in GridLines :
           /\ GridSSres(dataPoints, line) = FooterSSres(dataPoints)
           /\ slope(dataPoints) = Fin(line[1], GridDen)
           /\ intercept(dataPoints) = Fin(line[2], GridDen)
    /\ \E line \in GridLines :
           GridSSres(dataPoints, line) # FooterSSres(dataPoints)

\* the square of numerator / sqrt(radicand) of generateDataContext
CorrelationSquared(data) ==
    LET n == NumLen(data)
        numerator == NumSub(NumMul(n, sumXY(data)), NumMul(sumX(data), sumY(data)))
        radicand == NumMul(NumSub(NumMul(n, sumXX(data)), NumMul(sumX(data), sumX(data))),
                           NumSub(NumMul(n, sumYY(data)), NumMul(sumY(data), sumY(data))))
    IN NumDiv(NumMul(numerator, numerator), radicand)

\* the text m / 1000 with sign is the value v rounded to three places, where
\* v has the sign of direction and the square square
RoundsRootOf(text, square, direction) ==
    /\ text.k = "decimal" /\ text.places = 3
    /\ square.k = "fin"
    /\ text.digits = 0 \/ FracLeq((2 * text.digits - 1) * (2 * text.digits - 1), 4000000,
                                  square.n, square.d)
    /\ ~FracLeq((2 * text.digits + 1) * (2 * text.digits + 1), 4000000,
                square.n, square.d)
    /\ text.sign = (IF direction.n < 0 THEN "-" ELSE "")

\* C19: for every dataset with n >= 2, SXX != 0 and SStot != 0, R^2 computed
\* as 1 - SSres/SStot from the fitted line equals the square of the
\* correlation coefficient r = (n*sumXY - sumX*sumY) /
\* sqrt((n*sumXX - sumX^2)(n*sumYY - sumY^2)) computed by generateDataContext;
\* the coefficient printed in the chat context is the root of R^2, with the
\* sign of the slope, rounded to three places.
C19_R2IsCorrelationSquared ==
    (Len(dataPoints) >= 2 /\ ~IsZero(sxx(dataPoints)) /\ ~IsZero(FooterSStot(dataPoints))) =>
        /\ R2(dataPoints) = CorrelationSquared(dataPoints)
        /\ RoundsRootOf(generateDataContext(dataPoints).correlation, R2(dataPoints),
                        slope(dataPoints))

\* a falling line through three or more points with 0 < R^2 < 1
C19_Witness ==
    /\ Len(dataPoints) >= 3
    /\ ~IsZero(sxx(dataPoints)) /\ ~IsZero(FooterSStot(dataPoints))
    /\ slope(dataPoints).n < 0
    /\ R2(dataPoints).n > 0 /\ R2(dataPoints).n < R2(dataPoints).d
    /\ generateDataContext(dataPoints).correlation.sign = "-"

(***************************************************************************)
(* Properties of the form                                                  *)
(***************************************************************************)
\* the text is a number
Numeric(text) == text \in {"2", "-3"}

\* a form submission happens in this step
Submission == handleSubmit \/ handleYKeyDown

\* C20: after any sequence of form submissions (handleSubmit or Enter in the
\* Y field) the dataset contains no point whose x or y is NaN; a submission
\* in which either field fails to parse as a number adds nothing and leaves
\* the dataset and both input fields unchanged.
C20_NoNaNPoints ==
    /\ [](\A i \in 1..Len(dataPoints) :
              /\ dataPoints[i].x # NaNCoordinate /\ dataPoints[i].y # NaNCoordinate
              /\ ~isNaN(PX(dataPoints, i)) /\ ~isNaN(PY(dataPoints, i)))
    /\ [][(Submission /\ ~(Numeric(x) /\ Numeric(y)))
              => UNCHANGED <<dataPoints, x, y>>]_vars
    /\ [][(Len(dataPoints') > Len(dataPoints)) =>
              /\ Numeric(x) /\ Numeric(y)
              /\ dataPoints' = Append(dataPoints,
                     [x |-> Num2Coord(parseFloat(x)), y |-> Num2Coord(parseFloat(y))])]_vars

\* two points have been added and a submission with an unparsable X field
\* and a numeric Y field is at hand
C20_Witness ==
    /\ Len(dataPoints) = 2
    /\ dataPoints[1] # dataPoints[2]
    /\ x = "abc" /\ y = "2"

\* the point the fields hold
SubmittedPoint == [x |-> Num2Coord(parseFloat(x)), y |-> Num2Coord(parseFloat(y))]

\* C21: each accepted submission appends exactly one point at the end of the
\* dataset and leaves all earlier points and their order unchanged; one press
\* of Enter in the Y field, which reaches both handleYKeyDown and the form's
\* handleSubmit, adds the point once; and no accepted point is lost: the
\* dataset changes only by such an append or by Clear All.
C21_AppendsOnce ==
    /\ [][(Numeric(x) /\ Numeric(y) /\ Submission)
              => dataPoints' = Append(dataPoints, SubmittedPoint)]_vars
    /\ [][\A implicit \in ImplicitSubmissions :
              (Numeric(x) /\ Numeric(y) /\ PressEnterInY(implicit))
                  => /\ dataPoints' = Append(dataPoints, SubmittedPoint)
                     /\ SubSeq(dataPoints', 1, Len(dataPoints)) = dataPoints
                     /\ Len(dataPoints') = Len(dataPoints) + 1]_vars
    /\ [][dataPoints' # dataPoints =>
              \/ dataPoints' = << >>
              \/ /\ Numeric(x) /\ Numeric(y)
                 /\ dataPoints' = Append(dataPoints, SubmittedPoint)]_vars

\* three submissions have been accepted, the last with other values than the
\* first, and the fields are empty again
C21_Witness ==
    /\ Len(dataPoints) = 3
    /\ dataPoints[1] = [x |-> 2, y |-> -3]
    /\ dataPoints[3] = [x |-> -3, y |-> 2]
    /\ x = "" /\ y = ""

\* C22: handleDeletePoint(i) with a valid position i removes exactly the
\* point at position i, also when other points are identical to it, keeps the
\* remaining points in their original relative order and reduces the size by
\* exactly 1; handleClear leaves the dataset empty.
C22_DeleteRemovesPosition ==
    /\ [][\A index \in 1..Len(dataPoints) :
              handleDeletePoint(index) =>
                  /\ Len(dataPoints') = Len(dataPoints) - 1
                  /\ \A j \in 1..(index - 1) : dataPoints'[j] = dataPoints[j]
                  /\ \A j \in index..(Len(dataPoints) - 1) :
                         dataPoints'[j] = dataPoints[j + 1]]_vars
    /\ [][handleClear => Len(dataPoints') = 0]_vars

\* a dataset whose first and last points are identical, with another point
\* between them
C22_Witness ==
    /\ Len(dataPoints) = 3
    /\ dataPoints[1] = dataPoints[3]
    /\ dataPoints[1] # dataPoints[2]

C24_LoadedHasGenerator ==
    /\ modelStatus = "loaded" =>
           /\ workerRef \in running
           /\ generator[workerRef] # "null"
    /\ \A w \in running : \A i \in 1..Len(inbox[w]) :
           inbox[w][i].type = "GENERATE_TEXT" => generator[w] # "null"

\* after a retry the model is loaded again and the new worker holds a
\* GENERATE_TEXT request
C24_Witness ==
    /\ retries >= 1
    /\ modelStatus = "loaded"
    /\ workerRef \in running
    /\ \E i \in 1..Len(inbox[workerRef]) : inbox[workerRef][i].type = "GENERATE_TEXT"

\* C25: once modelStatus has become 'failed' it stays 'failed' until
\* retryLoading is called; in particular a MODEL_READY reply that arrives
\* after the load request has timed out does not change it.
C25_FailedUntilRetry ==
    [][modelStatus = "failed" => (modelStatus' = "failed" \/ retryLoading)]_vars

\* the messages worker w posts in this step
PostedIn(w) == SubSeq(outbox'[w], Len(outbox[w]) + 1, Len(outbox'[w]))

Terminal(m) == m.type \in {"MODEL_READY", "TEXT_GENERATED", "ERROR"}

\* the posts are PROGRESS messages for id
OnlyProgress(posted, id) ==
    \A k \in 1..Len(posted) : posted[k] = Msg(id, "PROGRESS")

\* the posts are PROGRESS messages for id followed by one terminal reply for id
EndsWithReply(posted, id) ==
    /\ Len(posted) >= 1
    /\ Terminal(posted[Len(posted)])
    /\ posted[Len(posted)].id = id
    /\ OnlyProgress(SubSeq(posted, 1, Len(posted) - 1), id)

\* worker w holds the message with this id: queued, or in a suspended invocation
Holds(w, id) ==
    \/ handlers[w][id] # "idle"
    \/ \E k \in 1..Len(inbox[w]) : inbox[w][k].id = id

\* a message not yet handled to its end has no terminal reply, and what a
\* worker has posted for an id has the terminal reply last and only once
RepliesInOrder ==
    \A w \in Workers, id \in Ids :
        /\ Holds(w, id) =>
               /\ id < nextId
               /\ \A k \in 1..Len(outbox[w]) :
                      outbox[w][k].id = id => ~Terminal(outbox[w][k])
               /\ Cardinality({k \in 1..Len(inbox[w]) : inbox[w][k].id = id})
                      + (IF handlers[w][id] # "idle" THEN 1 ELSE 0) = 1
        /\ \A k \in 1..Len(outbox[w]) :
               (Terminal(outbox[w][k]) /\ outbox[w][k].id = id) =>
                   \A j \in (k + 1)..Len(outbox[w]) : outbox[w][j].id # id

\* what a step of worker w posts: an invocation that runs to its end posts
\* its one terminal reply last, one that suspends posts PROGRESS only, and
\* nothing is posted otherwise
ReplyStep(w) ==
    IF WorkerReceive(w)
    THEN LET id == Head(inbox[w]).id
         IN IF handlers'[w][id] = "idle"
            THEN EndsWithReply(PostedIn(w), id)
            ELSE OnlyProgress(PostedIn(w), id)
    ELSE IF \E id \in Ids : handlers[w][id] # "idle" /\ handlers'[w][id] # handlers[w][id]
                                 /\ w \in running'
         THEN \A id \in Ids :
                  (handlers[w][id] # "idle" /\ handlers'[w][id] # handlers[w][id]) =>
                      IF handlers'[w][id] = "idle"
                      THEN EndsWithReply(PostedIn(w), id)
                      ELSE OnlyProgress(PostedIn(w), id)
         ELSE Len(outbox'[w]) <= Len(outbox[w])

\* C26: for every message the worker receives, provided the underlying
\* pipeline or generator call returns or throws, the worker posts exactly one
\* terminal reply (MODEL_READY, TEXT_GENERATED or ERROR) carrying the id of
\* that message, and every PROGRESS message for that id is posted before the
\* terminal reply.  (A worker that is terminated replies to nothing more.)
C26_OneTerminalReply ==
    /\ []RepliesInOrder
    /\ [][\A w \in Workers : ReplyStep(w)]_vars
    /\ \A id \in Ids :
           (\E w \in Workers : handlers[w][id] # "idle")
               ~> (\A w \in Workers : handlers[w][id] = "idle")

\* the fallback load of a retry's worker is in progress after its WebGPU
\* attempt failed, and the worker of the first load has answered a
\* GENERATE_TEXT request
C26_Witness ==
    /\ \E w \in running, id \in Ids : handlers[w][id] = "pipelineWASM" /\ w > 1
    /\ \E id \in Ids : requests[id].type = "GENERATE_TEXT" /\ requests[id].answered

\* no message is posted to a worker, no timeout is armed and the
\* pendingRequests table is as before
NothingSent ==
    /\ inbox' = inbox
    /\ pendingRequests' = pendingRequests
    /\ \A i \in Ids : requests'[i].timer = requests[i].timer

\* C27: generateText called while modelStatus is not 'loaded' rejects with
\* 'Model not loaded', and sendWorkerMessage called with no worker rejects
\* with 'Worker not initialized'; in both cases no message is posted to the
\* worker, no timeout is armed and pendingRequests is unchanged.
C27_RejectsWithoutSending ==
    /\ [][(CallGenerateText /\ modelStatus # "loaded") =>
              /\ requests'[nextId].state = "rejected"
              /\ requests'[nextId].by = "notloaded"
              /\ NothingSent]_vars
    /\ [][(CallSendWorkerMessage /\ workerRef = 0) =>
              /\ requests'[nextId].state = "rejected"
              /\ requests'[nextId].by = "noworker"
              /\ NothingSent]_vars

\* both rejections have happened, the first before the worker existed and
\* the second while a load request was pending
C27_Witness ==
    /\ \E i \in Ids : requests[i].by = "noworker"
    /\ \E i \in Ids : requests[i].by = "notloaded"
    /\ pendingRequests # {}

(***************************************************************************)
(* Properties of the conversation history                                  *)
(***************************************************************************)
\* the questions asked next
Questions == {LongText(length) : length \in UserLengths \cup {16000}}

\* C28: for every transcript and every question, the history string
\* returned by createConversationContext has estimateTokens(history) <=
\* availableTokens, where availableTokens = 4000 - 200 - 150 -
\* estimateTokens(question); the history is empty when availableTokens <= 0
\* (and the bound is asked of the other questions only: no string has a
\* negative estimate).
C28_HistoryWithinBudget ==
    \A currentQuestion \in Questions :
        LET conversationHistory == createConversationContext(messages, currentQuestion)
        IN IF availableTokens(currentQuestion) <= 0
           THEN conversationHistory = << >>
           ELSE estimateTokens(HistoryLength(conversationHistory))
                    <= availableTokens(currentQuestion)

(***************************************************************************)
(* Properties of the chart's hover overlays                                *)
(***************************************************************************)
\* C29: for every dataset and every valid hovered index, the x-coordinates of
\* the Y-difference and residual overlay segments (hovered x plus yDiffOffset
\* or residualOffset) lie within [minX, maxX] of the data, so drawing the
\* hover overlays never widens the chart's x-range.
C29_OverlaysWithinRange ==
    LET overlays == HoverOverlays(dataPoints, hoveredPointIndex)
    IN overlays.k = "overlays" =>
           /\ NumLeq(overlays.minX, overlays.yDifferenceX)
           /\ NumLeq(overlays.yDifferenceX, overlays.maxX)
           /\ NumLeq(overlays.minX, overlays.residualX)
           /\ NumLeq(overlays.residualX, overlays.maxX)

\* C30: after any sequence of add, delete, clear and row hover/leave events,
\* the chart builds hover overlays only when hoveredPointIndex is a valid
\* index of the current dataset and never reads a point outside it; a stale
\* index left behind by deleting rows or clearing produces no overlay.
C30_OverlayOnlyForValidIndex ==
    LET overlays == HoverOverlays(dataPoints, hoveredPointIndex)
    IN /\ overlays.k # "TypeError"
       /\ overlays.k = "overlays" =>
              /\ hoveredPointIndex \in 1..Len(dataPoints)
              /\ overlays.hoveredPoint = dataPoints[hoveredPointIndex]
       /\ hoveredPointIndex \notin 1..Len(dataPoints) => overlays.k = "none"

\* the hovered row was the last one and a row has been deleted: the index is
\* left behind, past the end of a dataset that still has points
C30_Witness ==
    /\ Len(dataPoints) >= 1
    /\ hoveredPointIndex = Len(dataPoints) + 1
====
